---- MODULE Spec2Model ----
(***************************************************************************)
(* A model of the Lightberry AI SDK core: the tool registry and the tool   *)
(* handlers of examples/local_tool_responses.py, the dispatch of a tool    *)
(* call received on the data channel, the process-wide application         *)
(* controller, the credential resolver of auth/authenticator.py (remote    *)
(* fetch first, local token synthesis as the fallback), and the client     *)
(* sessions of core/basic_client.py and core/tool_client.py.               *)
(***************************************************************************)
EXTENDS Integers, Sequences, FiniteSets, TLC

VARIABLES
    TOOL_REGISTRY,        \* local_tool_responses.TOOL_REGISTRY: tool name -> function
    _app_controller,      \* local_tool_responses._app_controller
    declared,             \* history: tool name -> function of the last @tool(name=...) applied
    signalled,            \* the controllers whose request_disconnect() has been called
    pending,              \* the tool call being answered: request, result, handler effects
    listing,              \* what the last call of get_available_tools() returned
    direct,               \* the last direct call of a decorated function, by its
                          \* name in the module: its arguments and what it gave
    channel,              \* history of the data channel: the tool calls that arrived,
                          \* those dispatched, and the responses sent, in order
    LIVEKIT_API_KEY,      \* authenticator.LIVEKIT_API_KEY (environment, read at import)
    LIVEKIT_API_SECRET,   \* authenticator.LIVEKIT_API_SECRET
    DEVICE_ID,            \* authenticator.DEVICE_ID
    auth,                 \* the authenticate() call: its position, inputs and outcome
    client,               \* the client object: its fields, its connect() in progress,
                          \* and what its last call surfaced
    transport             \* the streaming transport the client started (audio_main,
                          \* main_with_tools): whether it runs, and with what

vars == <<TOOL_REGISTRY, _app_controller, declared, signalled, pending, listing, channel,
          direct,
          LIVEKIT_API_KEY, LIVEKIT_API_SECRET, DEVICE_ID, auth, client, transport>>

toolVars ==
    <<TOOL_REGISTRY, _app_controller, declared, signalled, pending, listing, channel,
      direct>>
authVars == <<LIVEKIT_API_KEY, LIVEKIT_API_SECRET, DEVICE_ID, auth>>
clientVars == <<client, transport>>

(***************************************************************************)
(* Python values.  Every value is a record of the same shape, so that      *)
(* values of different Python types can be compared.                       *)
(***************************************************************************)
PyNone == [type |-> "NoneType", s |-> "", n |-> 0]
PyStr(s) == [type |-> "str", s |-> s, n |-> 0]
PyInt(n) == [type |-> "int", s |-> "", n |-> n]
PyBool(b) == [type |-> "bool", s |-> "", n |-> IF b THEN 1 ELSE 0]

\* bool(v): None, "", 0 and False are falsy.
Truthy(v) ==
    CASE v.type = "str" -> v.s # ""
      [] v.type = "int" -> v.n # 0
      [] v.type = "bool" -> v.n # 0
      [] OTHER -> FALSE

\* str(v), as an f-string formats it.
Str(v) ==
    CASE v.type = "str" -> v.s
      [] v.type = "int" -> ToString(v.n)
      [] v.type = "bool" -> (IF v.n # 0 THEN "True" ELSE "False")
      [] OTHER -> "None"

\* A raised exception, and the absence of one.
Exc(type, text) == [type |-> type, text |-> text]
NoException == Exc("", "")

\* What a call gave: the exception it raised (or none), the value it returned,
\* and the side effects it performed, in order.
Raises(e, effects) == [raised |-> e, value |-> [none |-> TRUE], effects |-> effects]
Returns(v, effects) == [raised |-> NoException, value |-> v, effects |-> effects]

(***************************************************************************)
(* The tool functions of local_tool_responses.py, by their __name__.       *)
(***************************************************************************)
Funcs == {"template_function", "add_to_order", "get_current_order", "amend_order",
          "send_order", "dance_tool", "end_session"}

\* The @tool(name=...) declarations of the module, in source order.
ModuleTools ==
    << <<"template", "template_function">>,
       <<"add_to_order", "add_to_order">>,
       <<"get_current_order", "get_current_order">>,
       <<"amend_order", "amend_order">>,
       <<"send_order", "send_order">>,
       <<"dance_tool", "dance_tool">>,
       <<"end_session", "end_session">> >>

\* dict[key] = value
DictSet(d, key, value) ==
    [k \in DOMAIN d \cup {key} |-> IF k = key THEN value ELSE d[k]]

EmptyDict == [k \in {} |-> "none"]

\* A plausible slip: the function is stored under its own __name__.
decorator_by_func_name(registry, name, func) == DictSet(registry, func, func)

\* A plausible slip: a name that is already registered keeps its first function.
decorator_first_wins(registry, name, func) ==
    IF name \in DOMAIN registry THEN registry ELSE DictSet(registry, name, func)

\* A plausible slip: a duplicate name is rejected (the declaration raises) and
\* the registry stays as it was.
decorator_rejects_duplicate(registry, name, func) ==
    IF name \in DOMAIN registry /\ registry[name] # func
    THEN registry
    ELSE DictSet(registry, name, func)

\* tool(name).decorator(func): TOOL_REGISTRY[name] = func.
decorator(registry, name, func) == DictSet(registry, name, func)

\* The registry after the 1st .. i-th declaration of the module has run.
RECURSIVE ImportTools(_)
ImportTools(i) ==
    IF i = 0 THEN EmptyDict
    ELSE decorator(ImportTools(i - 1), ModuleTools[i][1], ModuleTools[i][2])

RECURSIVE ImportDeclared(_)
ImportDeclared(i) ==
    IF i = 0 THEN EmptyDict
    ELSE DictSet(ImportDeclared(i - 1), ModuleTools[i][1], ModuleTools[i][2])

\* A plausible slip: the registry is emptied while it is listed (popitem()).
get_available_tools_drains(registry) ==
    [tools |-> [name \in DOMAIN registry |->
                   [name |-> name, function |-> registry[name],
                    module |-> "local_tool_responses"]],
     registry |-> EmptyDict]

\* get_available_tools(): the dict it returns, one entry for each item of
\* TOOL_REGISTRY (the description text is left out), and the registry after
\* the call.
get_available_tools(registry) ==
    [tools |-> [name \in DOMAIN registry |->
                   [name |-> name, function |-> registry[name],
                    module |-> "local_tool_responses"]],
     registry |-> registry]

\* get_available_tools() has not been called.
NotListed == [called |-> FALSE]

(***************************************************************************)
(* Signatures, and the binding of a call's keyword arguments to them.      *)
(***************************************************************************)
NoDefaults == [k \in {} |-> PyNone]

Sig(required, defaults, varkw) ==
    [required |-> required, defaults |-> defaults, varkw |-> varkw]

\* def template_function(**kwargs)
template_function_sig == Sig({}, NoDefaults, TRUE)

\* def add_to_order(coffee_type, milk_type, size="medium", quantity=1,
\*                  special_instructions="")
add_to_order_sig ==
    Sig({"coffee_type", "milk_type"},
        [k \in {"size", "quantity", "special_instructions"} |->
            CASE k = "size" -> PyStr("medium")
              [] k = "quantity" -> PyInt(1)
              [] OTHER -> PyStr("")],
        FALSE)

\* def get_current_order()
get_current_order_sig == Sig({}, NoDefaults, FALSE)

\* def amend_order(item_id="", coffee_type="", milk_type="", size="", quantity=0,
\*                 special_instructions="", action="update")
amend_order_sig ==
    Sig({},
        [k \in {"item_id", "coffee_type", "milk_type", "size", "quantity",
                "special_instructions", "action"} |->
            CASE k = "quantity" -> PyInt(0)
              [] k = "action" -> PyStr("update")
              [] OTHER -> PyStr("")],
        FALSE)

\* def send_order(customer_name="", special_notes="")
send_order_sig ==
    Sig({}, [k \in {"customer_name", "special_notes"} |-> PyStr("")], FALSE)

\* def dance_tool(**kwargs)
dance_tool_sig == Sig({}, NoDefaults, TRUE)

\* A plausible slip: farewell_message given a default.
end_session_sig_optional ==
    Sig({}, [k \in {"farewell_message"} |-> PyStr("")], FALSE)

\* def end_session(farewell_message)
end_session_sig == Sig({"farewell_message"}, NoDefaults, FALSE)

\* The parameters each function declares.
Signature(f) ==
    CASE f = "template_function" -> template_function_sig
      [] f = "add_to_order" -> add_to_order_sig
      [] f = "get_current_order" -> get_current_order_sig
      [] f = "amend_order" -> amend_order_sig
      [] f = "send_order" -> send_order_sig
      [] f = "dance_tool" -> dance_tool_sig
      [] OTHER -> end_session_sig

\* Python's binding of keyword arguments to parameters: an unexpected keyword
\* and a missing required parameter are TypeErrors raised before the body runs.
Unexpected(f, kwargs) ==
    IF Signature(f).varkw THEN {}
    ELSE DOMAIN kwargs \ (Signature(f).required \cup DOMAIN Signature(f).defaults)

Missing(f, kwargs) == Signature(f).required \ DOMAIN kwargs

BindError(f, kwargs) ==
    IF Unexpected(f, kwargs) # {}
    THEN Exc("TypeError", f \o "() got an unexpected keyword argument")
    ELSE IF Missing(f, kwargs) # {}
    THEN Exc("TypeError",
             f \o "() missing " \o ToString(Cardinality(Missing(f, kwargs)))
               \o " required positional argument(s)")
    ELSE NoException

\* The parameter values the body sees: the given ones, the defaults for the rest.
Bound(f, kwargs) ==
    [k \in DOMAIN kwargs \cup DOMAIN Signature(f).defaults |->
        IF k \in DOMAIN kwargs THEN kwargs[k] ELSE Signature(f).defaults[k]]

(***************************************************************************)
(* The bodies of the tool functions.  p maps each parameter to its value.  *)
(***************************************************************************)
NoController == "None"
Controllers == {"app1", "app2"}

\* One side effect of a body: sleep(n thirteenths of a second), a call of
\* target.request_disconnect(), or a joystick message with buttons[0] = n.
Effect(op, n, target) == [op |-> op, n |-> n, target |-> target]

template_function_body(p) ==
    Returns([tool |-> "template",
             received_arguments |-> p,
             argument_count |-> Cardinality(DOMAIN p),
             message |-> "This is a template function. Replace with your own implementation."],
            <<>>)

add_to_order_body(p) ==
    Returns([tool |-> "add_to_order",
             success |-> TRUE,
             item |-> [coffee_type |-> p["coffee_type"],
                       milk_type |-> p["milk_type"],
                       size |-> p["size"],
                       quantity |-> p["quantity"],
                       special_instructions |-> p["special_instructions"]],
             message |-> "Added " \o Str(p["quantity"]) \o "x " \o Str(p["size"]) \o " "
                           \o Str(p["coffee_type"]) \o " with " \o Str(p["milk_type"])
                           \o " milk to order"],
            <<>>)

get_current_order_body(p) ==
    Returns([tool |-> "get_current_order",
             success |-> TRUE,
             order |-> <<>>,
             message |-> "Current order retrieved (mock implementation - order is empty)"],
            <<>>)

\* quantity > 0 is evaluated unless action == "remove"; it is a TypeError for a
\* quantity that is not a number.
amend_order_body(p) ==
    IF p["action"] # PyStr("remove") /\ p["quantity"].type \notin {"int", "bool"}
    THEN Raises(Exc("TypeError",
                    "'>' not supported between instances of '" \o p["quantity"].type
                      \o "' and 'int'"),
                <<>>)
    ELSE Returns([tool |-> "amend_order",
                  success |-> TRUE,
                  item_id |-> p["item_id"],
                  action |-> p["action"],
                  message |-> "Order item " \o Str(p["action"]) \o "d successfully"],
                 <<>>)

send_order_body(p) ==
    Returns([tool |-> "send_order",
             success |-> TRUE,
             customer_name |-> p["customer_name"],
             special_notes |-> p["special_notes"],
             message |-> "Order sent to coffee robot"
                           \o (IF Truthy(p["customer_name"])
                               THEN " for " \o Str(p["customer_name"]) ELSE "")],
            <<>>)

\* What the robot side does to dance_tool: ROS works, ROS is not installed
\* (ImportError), or a ROS call fails.
RosOutcomes == {"ok", "ImportError", "error"}

dance_tool_body(p, ros) ==
    CASE ros = "ok" ->
            Returns([tool |-> "dance_tool",
                     success |-> TRUE,
                     message |-> "Dance motion triggered successfully",
                     button_pressed |-> 0,
                     duration_ms |-> 200],
                    <<Effect("publish_joy", 1, "/joy_input"),
                      Effect("publish_joy", 0, "/joy_input")>>)
      [] ros = "ImportError" ->
            Returns([tool |-> "dance_tool",
                     success |-> FALSE,
                     error |-> "ROS not available - please install and source ROS environment"],
                    <<>>)
      [] OTHER ->
            Returns([tool |-> "dance_tool", success |-> FALSE, error |-> "ros error"],
                    <<>>)

\* sleeplength = len(farewell_message)/13 + 2 seconds, in thirteenths of a second.
SleepLength(s) == Len(s) + 2 * 13

\* A plausible slip: the controller is used without the check for its presence.
end_session_body_unguarded(p, controller) ==
    IF p["farewell_message"].type # "str"
    THEN Raises(Exc("TypeError",
                    "object of type '" \o p["farewell_message"].type \o "' has no len()"),
                <<>>)
    ELSE IF controller = NoController
    THEN Raises(Exc("AttributeError",
                    "'NoneType' object has no attribute 'request_disconnect'"),
                <<Effect("sleep", SleepLength(p["farewell_message"].s), "")>>)
    ELSE Returns([tool |-> "end_session",
                  success |-> TRUE,
                  farewell_message |-> p["farewell_message"],
                  message |-> "Session ending, disconnecting from room"],
                 <<Effect("sleep", SleepLength(p["farewell_message"].s), ""),
                   Effect("request_disconnect", 0, controller)>>)

\* A plausible slip: the disconnect is requested first, before anything can fail.
end_session_body_disconnect_first(p, controller) ==
    LET first == IF controller # NoController
                 THEN <<Effect("request_disconnect", 0, controller)>> ELSE <<>>
    IN  IF p["farewell_message"].type # "str"
        THEN Raises(Exc("TypeError",
                        "object of type '" \o p["farewell_message"].type
                          \o "' has no len()"),
                    first)
        ELSE Returns([tool |-> "end_session",
                      success |-> TRUE,
                      farewell_message |-> p["farewell_message"],
                      message |-> "Session ending, disconnecting from room"],
                     first \o <<Effect("sleep", SleepLength(p["farewell_message"].s), "")>>)

\* A plausible slip: the result tells whether a disconnect was requested.
end_session_body_reports_disconnect(p, controller) ==
    IF p["farewell_message"].type # "str"
    THEN Raises(Exc("TypeError",
                    "object of type '" \o p["farewell_message"].type \o "' has no len()"),
                <<>>)
    ELSE Returns([tool |-> "end_session",
                  success |-> TRUE,
                  farewell_message |-> p["farewell_message"],
                  message |-> IF controller # NoController
                              THEN "Session ending, disconnecting from room"
                              ELSE "Session ending"],
                 <<Effect("sleep", SleepLength(p["farewell_message"].s), "")>>
                   \o (IF controller # NoController
                       THEN <<Effect("request_disconnect", 0, controller)>>
                       ELSE <<>>))

\* A plausible slip: the disconnect is left to the caller, after the result.
end_session_body_defers_disconnect(p, controller) ==
    IF p["farewell_message"].type # "str"
    THEN Raises(Exc("TypeError",
                    "object of type '" \o p["farewell_message"].type \o "' has no len()"),
                <<>>)
    ELSE Returns([tool |-> "end_session",
                  success |-> TRUE,
                  farewell_message |-> p["farewell_message"],
                  message |-> "Session ending, disconnecting from room"],
                 <<Effect("sleep", SleepLength(p["farewell_message"].s), "")>>)

\* len() of a value that is not a string raises; then the sleep; then the request
\* to the controller, if one is set; then the result.
end_session_body(p, controller) ==
    IF p["farewell_message"].type # "str"
    THEN Raises(Exc("TypeError",
                    "object of type '" \o p["farewell_message"].type \o "' has no len()"),
                <<>>)
    ELSE Returns([tool |-> "end_session",
                  success |-> TRUE,
                  farewell_message |-> p["farewell_message"],
                  message |-> "Session ending, disconnecting from room"],
                 <<Effect("sleep", SleepLength(p["farewell_message"].s), "")>>
                   \o (IF controller # NoController
                       THEN <<Effect("request_disconnect", 0, controller)>>
                       ELSE <<>>))

Body(f, p, controller, ros) ==
    CASE f = "template_function" -> template_function_body(p)
      [] f = "add_to_order" -> add_to_order_body(p)
      [] f = "get_current_order" -> get_current_order_body(p)
      [] f = "amend_order" -> amend_order_body(p)
      [] f = "send_order" -> send_order_body(p)
      [] f = "dance_tool" -> dance_tool_body(p, ros)
      [] OTHER -> end_session_body(p, controller)

\* func called with the keyword arguments kwargs, the way Python does it.
Call(f, kwargs, controller, ros) ==
    IF BindError(f, kwargs) # NoException
    THEN Raises(BindError(f, kwargs), <<>>)
    ELSE Body(f, Bound(f, kwargs), controller, ros)

\* A plausible slip: the wrapper catches the failure and returns nothing.
wrapper_swallows(func, kwargs, controller, ros) ==
    LET r == Call(func, kwargs, controller, ros)
    IN  IF r.raised # NoException
        THEN Returns([none |-> TRUE], r.effects)
        ELSE Returns(r.value, r.effects)

\* The wrapper that tool(name).decorator(func) returns, which is what the
\* module binds to the function's name: result = func(*args, **kwargs) and
\* return result; except Exception: log the error and raise.
wrapper(func, kwargs, controller, ros) ==
    LET r == Call(func, kwargs, controller, ros)
    IN  IF r.raised # NoException
        THEN Raises(r.raised, r.effects)
        ELSE Returns(r.value, r.effects)

\* No decorated function has been called directly.
NotCalled == [called |-> FALSE]

\* The controllers a call's effects asked to disconnect.
RECURSIVE Requested(_)
Requested(effects) ==
    IF effects = <<>> THEN {}
    ELSE (IF Head(effects).op = "request_disconnect" THEN {Head(effects).target} ELSE {})
           \cup Requested(Tail(effects))

(***************************************************************************)
(* The dispatch of one tool call (spec.md 4.2): look the name up, call the *)
(* function with the arguments as keywords, catch what it raises.          *)
(***************************************************************************)
NoPayload == [none |-> TRUE]

Request(tool_name, arguments) == [tool_name |-> tool_name, arguments |-> arguments]

InvocationResult(tool_name, success, payload, error) ==
    [tool_name |-> tool_name, success |-> success, payload |-> payload, error |-> error]

\* The result, whether a handler ran and what it did (what it raised or
\* returned, and its effects), and the exception that escaped to the caller of
\* dispatch (never one).
dispatch(registry, req, controller, ros) ==
    IF req.tool_name \notin DOMAIN registry
    THEN [result |-> InvocationResult(req.tool_name, FALSE, NoPayload, "tool_not_found"),
          ran |-> FALSE,
          handler |-> Returns(NoPayload, <<>>),
          escaped |-> NoException]
    ELSE LET r == Call(registry[req.tool_name], req.arguments, controller, ros)
         IN  IF r.raised # NoException
             THEN [result |-> InvocationResult(req.tool_name, FALSE, NoPayload,
                                               r.raised.text),
                   ran |-> TRUE,
                   handler |-> r,
                   escaped |-> NoException]
             ELSE [result |-> InvocationResult(req.tool_name, TRUE, r.value, ""),
                   ran |-> TRUE,
                   handler |-> r,
                   escaped |-> NoException]

(***************************************************************************)
(* The inputs of the tool side.                                            *)
(***************************************************************************)
\* Names a tool call may carry: the module's tools, a name a user may register
\* later, a name nobody registers, and the __name__ of a registered function.
ToolNames == {"template", "add_to_order", "get_current_order", "amend_order",
              "send_order", "dance_tool", "end_session",
              "echo", "missing_tool", "template_function"}

\* What a user's later @tool declarations register.
RegNames == {"template", "echo"}
RegFuncs == {"get_current_order", "end_session"}

\* The keyword arguments a tool call may carry: each name absent or present,
\* with a string or with a number where the type decides what the body does.
ArgNames == {"coffee_type", "milk_type", "farewell_message", "quantity"}
ArgValuesOf(k) ==
    CASE k = "farewell_message" -> {PyStr("bye"), PyInt(2)}
      [] k = "quantity" -> {PyStr("two"), PyInt(2)}
      [] OTHER -> {PyStr("oat")}
ArgMaps ==
    UNION {{m \in [S -> UNION {ArgValuesOf(k) : k \in ArgNames}] :
               \A k \in S : m[k] \in ArgValuesOf(k)} : S \in SUBSET ArgNames}

Idle == [busy |-> FALSE]

\* Nothing has arrived on the data channel.
EmptyChannel == [arrived |-> 0, inbox |-> <<>>, dispatched |-> <<>>, outbox |-> <<>>]

(***************************************************************************)
(* The operations of the tool side.                                        *)
(***************************************************************************)
\* @tool(name=name) applied to func, after the module's own declarations.
Register(name, func) ==
    /\ ~pending.busy
    /\ TOOL_REGISTRY' = decorator(TOOL_REGISTRY, name, func)
    /\ declared' = DictSet(declared, name, func)
    /\ UNCHANGED <<_app_controller, signalled, pending, listing, channel, direct>>
    /\ UNCHANGED authVars
    /\ UNCHANGED clientVars

\* set_app_controller(controller)
set_app_controller(controller) ==
    /\ ~pending.busy
    /\ _app_controller' = controller
    /\ UNCHANGED <<TOOL_REGISTRY, declared, signalled, pending, listing, channel, direct>>
    /\ UNCHANGED authVars
    /\ UNCHANGED clientVars

\* The dispatcher takes a tool call and dispatches it; the handler runs to
\* completion.
DispatchCall(req, ros) ==
    /\ ~pending.busy
    /\ LET d == dispatch(TOOL_REGISTRY, req, _app_controller, ros)
       IN  /\ pending' = [busy |-> TRUE, req |-> req, ros |-> ros, result |-> d.result,
                          ran |-> d.ran, handler |-> d.handler,
                          effects |-> d.handler.effects, escaped |-> d.escaped,
                          controller |-> _app_controller,
                          signalled_before |-> signalled]
           /\ signalled' = signalled \cup Requested(d.handler.effects)
    /\ UNCHANGED <<TOOL_REGISTRY, _app_controller, declared, listing, direct>>
    /\ UNCHANGED authVars
    /\ UNCHANGED clientVars

\* A tool call arrives and is dispatched at once.
Dispatch(req, ros) ==
    /\ DispatchCall(req, ros)
    /\ UNCHANGED channel

\* The response of the pending call is sent back on the data channel.
SendResponse ==
    /\ pending.busy
    /\ pending' = Idle
    /\ UNCHANGED <<TOOL_REGISTRY, _app_controller, declared, signalled, listing, direct>>
    /\ UNCHANGED authVars
    /\ UNCHANGED clientVars

EmitResponse ==
    /\ SendResponse
    /\ UNCHANGED channel

\* get_available_tools() is called, as LBToolClient._load_tools does.
ListTools ==
    /\ LET r == get_available_tools(TOOL_REGISTRY)
       IN  /\ listing' = [called |-> TRUE, tools |-> r.tools]
           /\ TOOL_REGISTRY' = r.registry
    /\ UNCHANGED <<_app_controller, declared, signalled, pending, channel, direct>>
    /\ UNCHANGED authVars
    /\ UNCHANGED clientVars

\* The tool calls of a session under way: each tool without arguments (success
\* or the TypeError of the call), end_session with its message, and a name
\* nobody registered.
RegistryRequests ==
    {Request(name, [k \in {} |-> PyNone]) : name \in ToolNames}
      \cup {Request("end_session", [k \in {"farewell_message"} |-> PyStr("bye")])}

\* Registration, then dispatch and listing in any order.
NextRegistry ==
    \/ \E name \in RegNames, func \in RegFuncs : Register(name, func)
    \/ \E req \in RegistryRequests : Dispatch(req, "ok")
    \/ EmitResponse
    \/ ListTools

\* A decorated function is called by its name in the module, with keyword
\* arguments: the wrapper runs, and the function in it.
CallWrapper(func, kwargs, ros) ==
    /\ ~pending.busy
    /\ LET r == wrapper(func, kwargs, _app_controller, ros)
       IN  /\ direct' = [called |-> TRUE, func |-> func, kwargs |-> kwargs, ros |-> ros,
                         controller |-> _app_controller, outcome |-> r]
           /\ signalled' = signalled \cup Requested(r.effects)
    /\ UNCHANGED <<TOOL_REGISTRY, _app_controller, declared, pending, listing, channel>>
    /\ UNCHANGED authVars
    /\ UNCHANGED clientVars

\* Direct calls of the decorated functions, with the controller set or not.
NextWrapper ==
    \/ \E c \in Controllers \cup {NoController} : set_app_controller(c)
    \/ \E func \in Funcs, kwargs \in ArgMaps, ros \in RosOutcomes :
          /\ (ros # "ok" => func = "dance_tool")   \* only dance_tool reads ros
          /\ CallWrapper(func, kwargs, ros)

NextTools ==
    \/ \E name \in RegNames, func \in RegFuncs : Register(name, func)
    \/ \E c \in Controllers \cup {NoController} : set_app_controller(c)
    \/ \E name \in ToolNames, args \in ArgMaps, ros \in RosOutcomes :
          /\ (ros # "ok" => name = "dance_tool")   \* only dance_tool reads ros
          /\ Dispatch(Request(name, args), ros)
    \/ EmitResponse

(***************************************************************************)
(* Authentication (auth/authenticator.py).                                 *)
(***************************************************************************)
\* api.AccessToken(key, secret).with_identity(..).with_name(..).with_grants(..).to_jwt()
Jwt(key, secret, identity, name, room) ==
    PyStr("jwt(" \o key.s \o "," \o identity.s \o "," \o name.s \o "," \o room.s \o ")")

\* A plausible slip: only the key is checked, not the secret.
generate_token_key_only(room_name, identity, name) ==
    LET id == IF ~Truthy(identity) THEN PyStr("python-user-" \o Str(room_name))
              ELSE identity
        nm == IF ~Truthy(name) THEN id ELSE name
    IN  IF ~Truthy(LIVEKIT_API_KEY)
        THEN Raises(Exc("ValueError",
                        "LIVEKIT_API_KEY and LIVEKIT_API_SECRET must be set in .env file"),
                    <<>>)
        ELSE Returns(Jwt(LIVEKIT_API_KEY, LIVEKIT_API_SECRET, id, nm, room_name), <<>>)

\* generate_token(room_name, identity, name)
generate_token(room_name, identity, name) ==
    LET id == IF ~Truthy(identity) THEN PyStr("python-user-" \o Str(room_name))
              ELSE identity
        nm == IF ~Truthy(name) THEN id ELSE name
    IN  IF ~Truthy(LIVEKIT_API_KEY) \/ ~Truthy(LIVEKIT_API_SECRET)
        THEN Raises(Exc("ValueError",
                        "LIVEKIT_API_KEY and LIVEKIT_API_SECRET must be set in .env file"),
                    <<>>)
        ELSE Returns(Jwt(LIVEKIT_API_KEY, LIVEKIT_API_SECRET, id, nm, room_name), <<>>)

\* data.get(key)
DictGet(data, key) == IF key \in DOMAIN data THEN data[key] ELSE PyNone

\* What the POST can come to: no connection, or a response with a status and a
\* body that is JSON (data) or is not.
NetworkError == [kind |-> "network_error", status |-> 0, json |-> FALSE,
                 data |-> [k \in {} |-> PyNone]]
HttpResponse(status, json, data) ==
    [kind |-> "http", status |-> status, json |-> json, data |-> data]
TimedOut == [kind |-> "timeout", status |-> 0, json |-> FALSE,
             data |-> [k \in {} |-> PyNone]]

NoCredentials == <<PyNone, PyNone>>

\* A plausible slip: raise_for_status() is left out.
FetchErrorStatusIgnored(resp) ==
    CASE resp.kind = "network_error" -> Exc("ClientConnectorError", "Cannot connect to host")
      [] resp.kind = "timeout" -> Exc("TimeoutError", "")
      [] ~resp.json -> Exc("ContentTypeError", "Attempt to decode JSON with unexpected mimetype")
      [] OTHER -> NoException

\* The exception, if any, that the body of the try block raises on a response:
\* the connection error, the timeout of the session, raise_for_status() on a
\* status of 400 and above, response.json() on a body that is not JSON.
FetchError(resp) ==
    CASE resp.kind = "network_error" -> Exc("ClientConnectorError", "Cannot connect to host")
      [] resp.kind = "timeout" -> Exc("TimeoutError", "")
      [] resp.status >= 400 -> Exc("ClientResponseError", ToString(resp.status))
      [] ~resp.json -> Exc("ContentTypeError", "Attempt to decode JSON with unexpected mimetype")
      [] OTHER -> NoException

\* A plausible slip: the pair is returned in the wrong order.
credentials_of_swapped(data) ==
    IF Truthy(DictGet(data, "success"))
    THEN IF Truthy(DictGet(data, "livekit_token")) /\ Truthy(DictGet(data, "room_name"))
         THEN <<DictGet(data, "room_name"), DictGet(data, "livekit_token")>>
         ELSE NoCredentials
    ELSE NoCredentials

\* A plausible slip: one of the two values is enough.
credentials_of_either(data) ==
    IF Truthy(DictGet(data, "success"))
    THEN IF Truthy(DictGet(data, "livekit_token")) \/ Truthy(DictGet(data, "room_name"))
         THEN <<DictGet(data, "livekit_token"), DictGet(data, "room_name")>>
         ELSE NoCredentials
    ELSE NoCredentials

\* The pair taken from a decoded body: both values, or neither.
credentials_of(data) ==
    IF Truthy(DictGet(data, "success"))
    THEN IF Truthy(DictGet(data, "livekit_token")) /\ Truthy(DictGet(data, "room_name"))
         THEN <<DictGet(data, "livekit_token"), DictGet(data, "room_name")>>
         ELSE NoCredentials
    ELSE NoCredentials

\* A plausible slip: except aiohttp.ClientError, which a timeout is not.
except_client_error(e) == e.type \in {"ClientConnectorError", "ClientResponseError",
                                      "ContentTypeError"}

\* except Exception: every failure of the request is caught.
except_Exception(e) == e.type # ""

\* get_credentials_from_api from the POST on: the pair it returns and the
\* exception that escapes it.
fetch_result(resp) ==
    IF FetchError(resp) = NoException
    THEN [raised |-> NoException, pair |-> credentials_of(resp.data)]
    ELSE IF except_Exception(FetchError(resp))
    THEN [raised |-> NoException, pair |-> NoCredentials]
    ELSE [raised |-> FetchError(resp), pair |-> NoCredentials]

\* if api_token and api_room_name
use_api_credentials(pair) == Truthy(pair[1]) /\ Truthy(pair[2])

\* A plausible slip: the local credential names the default room, not the
\* room the caller passed.
authenticate_rest_default_room(pair, participant_name, fallback_room_name) ==
    IF use_api_credentials(pair)
    THEN [raised |-> NoException, token |-> pair[1], room |-> pair[2], synth |-> 0]
    ELSE LET g == generate_token(fallback_room_name, participant_name, participant_name)
         IN  IF g.raised # NoException
             THEN [raised |-> g.raised, token |-> PyNone, room |-> PyNone, synth |-> 1]
             ELSE [raised |-> NoException, token |-> g.value,
                   room |-> PyStr("default-room"), synth |-> 1]

\* authenticate from the return of get_credentials_from_api on: the exception
\* it raises or the (token, room) it returns, and the calls of generate_token.
authenticate_rest(pair, participant_name, fallback_room_name) ==
    IF use_api_credentials(pair)
    THEN [raised |-> NoException, token |-> pair[1], room |-> pair[2], synth |-> 0]
    ELSE LET g == generate_token(fallback_room_name, participant_name, participant_name)
         IN  IF g.raised # NoException
             THEN [raised |-> g.raised, token |-> PyNone, room |-> PyNone, synth |-> 1]
             ELSE [raised |-> NoException, token |-> g.value,
                   room |-> fallback_room_name, synth |-> 1]

(***************************************************************************)
(* The inputs of authentication.                                           *)
(***************************************************************************)
Participants == {PyStr("sdk-user-dev1"), PyStr("")}
FallbackRooms == {PyStr("default-room"), PyStr("lobby")}

Statuses == {200, 429, 500}

DataKeys == {"success", "livekit_token", "room_name"}
FieldValues(k) ==
    CASE k = "success" -> {PyBool(TRUE), PyBool(FALSE)}
      [] k = "livekit_token" -> {PyStr(""), PyStr("T1")}
      [] OTHER -> {PyStr(""), PyStr("room-A"), PyStr("default-room")}

\* The JSON objects the endpoint may answer with: each key absent or present.
Datas ==
    UNION {{d \in [S -> UNION {FieldValues(k) : k \in DataKeys}] :
               \A k \in S : d[k] \in FieldValues(k)} : S \in SUBSET DataKeys}

Responses ==
    {NetworkError}
      \cup {HttpResponse(s, FALSE, [k \in {} |-> PyNone]) : s \in Statuses}
      \cup {HttpResponse(s, TRUE, d) : s \in Statuses, d \in Datas}

\* aiohttp.ClientSession() is created without a timeout, so the session has
\* aiohttp's default one: 5 minutes for the whole request.
ClientTimeoutTotal == 5

NotSent == [kind |-> "not_sent", status |-> 0, json |-> FALSE,
            data |-> [k \in {} |-> PyNone]]

AuthIdle ==
    [pc |-> "idle", participant |-> PyNone, fallback |-> PyNone, elapsed |-> 0,
     posts |-> 0, synth |-> 0, response |-> NotSent,
     pair |-> NoCredentials,     \* what get_credentials_from_api returned
     raised |-> NoException, token |-> PyNone, room |-> PyNone]

\* authenticate() has come to its end on the answer resp of the remote side.
AuthDone(call, resp) ==
    LET f == fetch_result(resp)
        a == authenticate_rest(f.pair, call.participant, call.fallback)
    IN  IF f.raised # NoException
        THEN [call EXCEPT !.pc = "done", !.response = resp, !.raised = f.raised]
        ELSE [call EXCEPT !.pc = "done", !.response = resp, !.pair = f.pair,
                          !.raised = a.raised,
                          !.token = a.token, !.room = a.room, !.synth = a.synth]

\* A plausible slip: the POST is sent whether or not DEVICE_ID is set.
AuthCalled_posts_anyway(participant_name, fallback_room_name) ==
    [AuthIdle EXCEPT !.participant = participant_name, !.fallback = fallback_room_name,
                     !.pc = "awaiting_post", !.posts = 1]

\* authenticate(participant_name, fallback_room_name) up to its first pause.
AuthCalled(participant_name, fallback_room_name) ==
    LET call == [AuthIdle EXCEPT !.participant = participant_name,
                                 !.fallback = fallback_room_name]
    IN  IF ~Truthy(DEVICE_ID)
        THEN [AuthDone(call, HttpResponse(200, TRUE, [k \in {} |-> PyNone]))
                EXCEPT !.response = NotSent]
        ELSE [call EXCEPT !.pc = "awaiting_post", !.posts = 1]

(***************************************************************************)
(* The operations of authentication.  authenticate() awaits the POST of    *)
(* get_credentials_from_api; everything else in it runs without a pause.   *)
(***************************************************************************)
\* authenticate(participant_name, fallback_room_name) is called.  Without a
\* DEVICE_ID get_credentials_from_api returns (None, None) at once.
Authenticate(participant_name, fallback_room_name) ==
    /\ auth.pc # "awaiting_post"
    /\ auth' = AuthCalled(participant_name, fallback_room_name)
    /\ UNCHANGED <<LIVEKIT_API_KEY, LIVEKIT_API_SECRET, DEVICE_ID>>
    /\ UNCHANGED toolVars
    /\ UNCHANGED clientVars

\* The POST ends: with a connection error, or with a response.
RemoteResponds(resp) ==
    /\ auth.pc = "awaiting_post"
    /\ auth' = AuthDone(auth, resp)
    /\ UNCHANGED <<LIVEKIT_API_KEY, LIVEKIT_API_SECRET, DEVICE_ID>>
    /\ UNCHANGED toolVars
    /\ UNCHANGED clientVars

\* A minute passes with the POST unanswered.
Tick ==
    /\ auth.pc = "awaiting_post"
    /\ auth.elapsed < ClientTimeoutTotal
    /\ auth' = [auth EXCEPT !.elapsed = @ + 1]
    /\ UNCHANGED <<LIVEKIT_API_KEY, LIVEKIT_API_SECRET, DEVICE_ID>>
    /\ UNCHANGED toolVars
    /\ UNCHANGED clientVars

\* A plausible slip: the session is created with no timeout at all.
SessionWithoutTimeout ==
    /\ FALSE
    /\ UNCHANGED vars

\* The session's timeout ends the unanswered POST.
SessionTimeout ==
    /\ auth.pc = "awaiting_post"
    /\ auth.elapsed = ClientTimeoutTotal
    /\ auth' = AuthDone(auth, TimedOut)
    /\ UNCHANGED <<LIVEKIT_API_KEY, LIVEKIT_API_SECRET, DEVICE_ID>>
    /\ UNCHANGED toolVars
    /\ UNCHANGED clientVars

NextAuth ==
    \/ \E pn \in Participants, room \in FallbackRooms : Authenticate(pn, room)
    \/ \E resp \in Responses : RemoteResponds(resp)
    \/ Tick
    \/ SessionTimeout

(***************************************************************************)
(* The client sessions (core/basic_client.py, core/tool_client.py).        *)
(***************************************************************************)
\* The lower-case letter of an upper-case letter, any other character itself.
LowerChar(c) ==
    CASE c = "A" -> "a" [] c = "B" -> "b" [] c = "C" -> "c" [] c = "D" -> "d"
      [] c = "E" -> "e" [] c = "F" -> "f" [] c = "G" -> "g" [] c = "H" -> "h"
      [] c = "I" -> "i" [] c = "J" -> "j" [] c = "K" -> "k" [] c = "L" -> "l"
      [] c = "M" -> "m" [] c = "N" -> "n" [] c = "O" -> "o" [] c = "P" -> "p"
      [] c = "Q" -> "q" [] c = "R" -> "r" [] c = "S" -> "s" [] c = "T" -> "t"
      [] c = "U" -> "u" [] c = "V" -> "v" [] c = "W" -> "w" [] c = "X" -> "x"
      [] c = "Y" -> "y" [] c = "Z" -> "z"
      [] OTHER -> c

\* str.lower(), character by character.
RECURSIVE Lower(_)
Lower(s) ==
    IF Len(s) = 0 THEN ""
    ELSE LowerChar(SubSeq(s, 1, 1)) \o Lower(SubSeq(s, 2, Len(s)))

\* sub in s
Contains(s, sub) ==
    \E i \in 1..(Len(s) - Len(sub) + 1) : SubSeq(s, i, i + Len(sub) - 1) = sub

\* What the authentication function gave to connect(): the exception it
\* raised, or the values connect() unpacks.
AuthResult(raised, token, room, url) ==
    [raised |-> raised, token |-> token, room |-> room, url |-> url]
NoAuthResult == AuthResult(NoException, PyNone, PyNone, PyNone)

\* A plausible slip: the quota indicator is looked for in the text as it is.
connect_except_case_sensitive(e) ==
    IF Contains(e.text, "quota") THEN Exc("Exception", "Quota reached.") ELSE e

\* except Exception as e: if "quota" in str(e).lower(): raise
\* Exception("Quota reached.") else: raise e
connect_except(e) ==
    IF \E text \in {Lower(e.text)} : Contains(text, "quota")
    THEN Exc("Exception", "Quota reached.")
    ELSE e

\* The fields every client object has; a LightberryBasicClient has no _token
\* and no _livekit_url, which stay None here.
ClientObject(class, use_local, device_id) ==
    [class |-> class, use_local |-> use_local, device_id |-> device_id,
     assistant_name |-> PyNone,
     _participant_name |-> PyNone, _room_name |-> PyNone,
     _token |-> PyNone, _livekit_url |-> PyNone,
     pc |-> "idle",                    \* "connecting": connect() awaits authenticate()
     args |-> <<PyNone, PyNone>>,      \* the room_name and the participant_name the
                                       \* caller passed to the last connect()
     participant_name |-> PyNone,      \* the participant that connect() passed to the
                                       \* authentication function
     room_name |-> PyNone,             \* the room that connect() passed to it
     auth_result |-> NoAuthResult,     \* what authentication gave the last connect()
     raised |-> NoException,           \* what the last completed call raised
     last |-> ""]                      \* the last completed call

\* LightberryBasicClient(api_key, device_id)
LightberryBasicClient(api_key, device_id) ==
    ClientObject("LightberryBasicClient", FALSE, device_id)

\* No client has been constructed (yet, or because __init__ raised).
NotConstructed == ClientObject("", FALSE, PyNone)

\* A plausible slip: the check fails only when both values are absent.
LBToolClient_init_error_both_absent(api_key, device_id, use_local) ==
    IF ~use_local /\ (~Truthy(api_key) /\ ~Truthy(device_id))
    THEN Exc("ValueError", "api_key and device_id are required for remote mode")
    ELSE NoException

\* if not use_local and (not api_key or not device_id): raise ValueError(...)
LBToolClient_init_error(api_key, device_id, use_local) ==
    IF ~use_local /\ (~Truthy(api_key) \/ ~Truthy(device_id))
    THEN Exc("ValueError", "api_key and device_id are required for remote mode")
    ELSE NoException

\* LBToolClient(api_key, device_id, use_local), for arguments __init__ accepts.
LBToolClient(api_key, device_id, use_local) ==
    ClientObject("LBToolClient", use_local,
                 IF Truthy(device_id) THEN device_id ELSE PyStr("local-device"))

\* The property is_connected of both classes.
is_connected(c) == c._participant_name # PyNone

\* The end of a call: what it raised (or nothing) is what the caller sees.
Completed(c, method, e) == [c EXCEPT !.raised = e, !.last = method]

\* A plausible slip: the participant is stored before authenticate() is awaited.
LightberryBasicClient_connect_stores_first(c, r) ==
    IF r.raised = NoException
    THEN Completed([c EXCEPT !.pc = "idle", !.auth_result = r,
                             !._participant_name = c.participant_name,
                             !._room_name = r.room],
                   "connect", NoException)
    ELSE Completed([c EXCEPT !.pc = "idle", !.auth_result = r,
                             !._participant_name = c.participant_name],
                   "connect", connect_except(r.raised))

\* LightberryBasicClient.connect() from the end of authenticate() on: the two
\* fields are assigned when it returned, the except clause runs when it raised.
LightberryBasicClient_connect_returns(c, r) ==
    IF r.raised = NoException
    THEN Completed([c EXCEPT !.pc = "idle", !.auth_result = r,
                             !._participant_name = c.participant_name,
                             !._room_name = r.room],
                   "connect", NoException)
    ELSE Completed([c EXCEPT !.pc = "idle", !.auth_result = r],
                   "connect", connect_except(r.raised))

\* The parameters of authenticator.authenticate.
authenticate_params == <<"participant_name", "fallback_room_name">>

\* Python's binding of a call of authenticate with npos positional arguments
\* and the keywords kw: the TypeError it raises before the body runs, or none.
authenticate_call_error(npos, kw) ==
    LET names == {authenticate_params[i] : i \in 1..Len(authenticate_params)}
        unexpected == {i \in 1..Len(kw) : kw[i] \notin names}
        first == CHOOSE i \in unexpected : \A j \in unexpected : i <= j
    IN  IF unexpected # {}
        THEN Exc("TypeError", "authenticate() got an unexpected keyword argument '"
                                \o kw[first] \o "'")
        ELSE IF npos > Len(authenticate_params)
        THEN Exc("TypeError", "authenticate() takes " \o ToString(Len(authenticate_params))
                                \o " positional arguments but " \o ToString(npos)
                                \o " were given")
        ELSE IF npos + Len(kw) < Len(authenticate_params)
        THEN Exc("TypeError", "authenticate() missing required positional argument(s)")
        ELSE NoException

\* The outcomes of authenticate_local (auth/local_authenticator.py): a local
\* credential, the configuration error of absent signing credentials, and a
\* failure that carries a quota indicator.
LocalAuthOutcomes == {"ok", "configuration_error", "Quota exceeded", "device quota exhausted"}

authenticate_local(participant_name, room_name, outcome) ==
    CASE outcome = "ok" ->
            AuthResult(NoException,
                       PyStr("local-jwt(" \o Str(participant_name) \o "," \o Str(room_name)
                               \o ")"),
                       room_name, PyStr("ws://localhost:7880"))
      [] outcome = "configuration_error" ->
            AuthResult(Exc("ValueError", "signing credentials are not configured"),
                       PyNone, PyNone, PyNone)
      [] OTHER -> AuthResult(Exc("Exception", outcome), PyNone, PyNone, PyNone)

\* LBToolClient.connect() from the end of the authentication call on.
LBToolClient_connect_returns(c, participant_name, r) ==
    IF r.raised = NoException
    THEN Completed([c EXCEPT !.auth_result = r,
                             !._participant_name = participant_name,
                             !._room_name = r.room,
                             !._token = r.token,
                             !._livekit_url = r.url],
                   "connect", NoException)
    ELSE Completed([c EXCEPT !.auth_result = r], "connect", connect_except(r.raised))

\* os.environ.get("ROOM_NAME", "default-room"): unset, or set.
RoomNameEnv == {PyNone, PyStr("lobby")}
getenv_ROOM_NAME(value) == IF value = PyNone THEN PyStr("default-room") ELSE value

\* A plausible slip: in remote mode the names the caller passed are used when
\* they are given, as in local mode.
LBToolClient_connect_uses_arguments(c, room_name, participant_name, outcome, room_env) ==
    LET pn == IF ~Truthy(participant_name)
              THEN PyStr((IF c.use_local THEN "local-user-" ELSE "sdk-user-")
                           \o Str(c.device_id))
              ELSE participant_name
        rn == IF ~Truthy(room_name)
              THEN (IF c.use_local THEN PyStr("local-room") ELSE getenv_ROOM_NAME(room_env))
              ELSE room_name
        e == authenticate_call_error(3, <<"has_initial_transcripts",
                                          "session_instructions">>)
    IN  LBToolClient_connect_returns(
            [c EXCEPT !.args = <<room_name, participant_name>>,
                      !.participant_name = pn, !.room_name = rn],
            pn, IF c.use_local THEN authenticate_local(pn, rn, outcome)
                ELSE AuthResult(e, PyNone, PyNone, PyNone))

\* LBToolClient.connect(room_name, participant_name).  In local mode the names
\* default and authenticate_local is called.  In remote mode authenticate is
\* called with three positional arguments and the keywords
\* has_initial_transcripts and session_instructions, which it does not take:
\* the call raises before authenticate runs.
LBToolClient_connect(c, room_name, participant_name, outcome, room_env) ==
    IF c.use_local
    THEN LET rn == IF ~Truthy(room_name) THEN PyStr("local-room") ELSE room_name
             pn == IF ~Truthy(participant_name)
                   THEN PyStr("local-user-" \o Str(c.device_id))
                   ELSE participant_name
         IN  LBToolClient_connect_returns(
                 [c EXCEPT !.args = <<room_name, participant_name>>,
                           !.participant_name = pn, !.room_name = rn],
                 pn, authenticate_local(pn, rn, outcome))
    ELSE LET pn == PyStr("sdk-user-" \o Str(c.device_id))
             rn == getenv_ROOM_NAME(room_env)
             e == authenticate_call_error(3, <<"has_initial_transcripts",
                                               "session_instructions">>)
             \* had the call bound, the pair authenticate returns would not
             \* unpack into token, room_name, livekit_url
             unpack == Exc("ValueError", "not enough values to unpack (expected 3, got 2)")
         IN  LBToolClient_connect_returns(
                 [c EXCEPT !.args = <<room_name, participant_name>>,
                           !.participant_name = pn, !.room_name = rn],
                 pn, AuthResult(IF e # NoException THEN e ELSE unpack,
                                PyNone, PyNone, PyNone))

\* A plausible slip: the check of start_streaming() is left out.
start_streaming_unchecked(c) == NoException

\* if not self._participant_name: raise RuntimeError(...)
start_streaming_check(c) ==
    IF ~Truthy(c._participant_name)
    THEN Exc("RuntimeError", "Must call connect() before start_streaming()")
    ELSE NoException

\* if not self._participant_name: raise RuntimeError(...)
enable_audio_check(c) ==
    IF ~Truthy(c._participant_name)
    THEN Exc("RuntimeError", "Must call connect() before enable_audio()")
    ELSE NoException

\* A plausible slip: disconnect() forgets the participant.
LightberryBasicClient_disconnect_keeps_participant(c) ==
    Completed([c EXCEPT !._room_name = PyNone], "disconnect", NoException)

\* LightberryBasicClient.disconnect()
LightberryBasicClient_disconnect(c) ==
    Completed([c EXCEPT !._participant_name = PyNone, !._room_name = PyNone],
              "disconnect", NoException)

\* A plausible slip: disconnect() forgets the participant.
LBToolClient_disconnect_keeps_participant(c) ==
    Completed([c EXCEPT !._room_name = PyNone, !._token = PyNone,
                        !._livekit_url = PyNone],
              "disconnect", NoException)

\* A plausible slip: disconnect() leaves the token in place.
LBToolClient_disconnect_keeps_token(c) ==
    Completed([c EXCEPT !._participant_name = PyNone, !._room_name = PyNone,
                        !._livekit_url = PyNone],
              "disconnect", NoException)

\* LBToolClient.disconnect()
LBToolClient_disconnect(c) ==
    Completed([c EXCEPT !._participant_name = PyNone, !._room_name = PyNone,
                        !._token = PyNone, !._livekit_url = PyNone],
              "disconnect", NoException)

\* The streaming transport: not running, or running with the values the
\* client passed to it when it started it.
NoTransport ==
    [open |-> FALSE, method |-> "", participant_name |-> PyNone, token |-> PyNone,
     livekit_url |-> PyNone,
     control |-> "",          \* the last control message its receive loop handled
     teardown |-> FALSE]      \* the hosting session closed it on a request to
                              \* disconnect and has yet to call disconnect()
Streaming(method, c) ==
    [open |-> TRUE, method |-> method, participant_name |-> c._participant_name,
     token |-> c._token, livekit_url |-> c._livekit_url,
     control |-> "", teardown |-> FALSE]

(***************************************************************************)
(* The inputs of the client calls.                                         *)
(***************************************************************************)
\* The arguments of the constructors: each value absent, empty, or given.
ApiKeys == {PyNone, PyStr(""), PyStr("key")}
DeviceIds == {PyNone, PyStr(""), PyStr("dev1")}

\* The answers of the remote side to the POST of a connect(): no connection,
\* the quota status, a body that is not JSON, a refusal, a body without the
\* room, and the two successes.
ConnectResponses ==
    {NetworkError,
     HttpResponse(429, TRUE, [k \in {"success"} |-> PyBool(FALSE)]),
     HttpResponse(200, FALSE, [k \in {} |-> PyNone]),
     HttpResponse(200, TRUE, [k \in {"success"} |-> PyBool(FALSE)]),
     HttpResponse(200, TRUE,
                  [k \in {"success", "livekit_token"} |->
                      IF k = "success" THEN PyBool(TRUE) ELSE PyStr("T1")]),
     HttpResponse(200, TRUE,
                  [k \in DataKeys |->
                      CASE k = "success" -> PyBool(TRUE)
                        [] k = "livekit_token" -> PyStr("T1")
                        [] OTHER -> PyStr("room-A")]),
     HttpResponse(200, TRUE,
                  [k \in DataKeys |->
                      CASE k = "success" -> PyBool(TRUE)
                        [] k = "livekit_token" -> PyStr("T1")
                        [] OTHER -> PyStr("default-room")])}

\* The arguments of LBToolClient.connect.
ConnectRooms == {PyNone, PyStr("test-room")}
ConnectParticipants == {PyNone, PyStr("alice")}

(***************************************************************************)
(* The operations of the clients.  One connect() is in progress at a time, *)
(* and one streaming transport runs at a time.                             *)
(***************************************************************************)
\* LightberryBasicClient(api_key, device_id): __init__ stores what it is given.
NewLightberryBasicClient(api_key, device_id) ==
    /\ client.class = ""
    /\ client' = LightberryBasicClient(api_key, device_id)
    /\ UNCHANGED transport
    /\ UNCHANGED authVars
    /\ UNCHANGED toolVars

\* LBToolClient(api_key, device_id, use_local): __init__ raises, and there is
\* no object, or it returns the object.
NewLBToolClient(api_key, device_id, use_local) ==
    /\ client.class = ""
    /\ client' = IF LBToolClient_init_error(api_key, device_id, use_local) # NoException
                 THEN Completed(NotConstructed, "__init__",
                                LBToolClient_init_error(api_key, device_id, use_local))
                 ELSE LBToolClient(api_key, device_id, use_local)
    /\ UNCHANGED transport
    /\ UNCHANGED authVars
    /\ UNCHANGED toolVars

\* LightberryBasicClient.connect() up to the await of authenticate(), and to
\* its end when authenticate() does not pause.
BasicConnect(room_env) ==
    /\ client.class = "LightberryBasicClient"
    /\ client.pc = "idle"
    /\ auth.pc # "awaiting_post"
    /\ LET participant_name == PyStr("sdk-user-" \o Str(client.device_id))
           a == AuthCalled(participant_name, getenv_ROOM_NAME(room_env))
           c == [client EXCEPT !.pc = "connecting", !.participant_name = participant_name,
                               !.room_name = getenv_ROOM_NAME(room_env)]
       IN  IF a.pc = "done"
           THEN /\ client' = LightberryBasicClient_connect_returns(
                                 c, AuthResult(a.raised, a.token, a.room, PyNone))
                /\ auth' = AuthIdle
           ELSE /\ client' = c
                /\ auth' = a
    /\ UNCHANGED <<LIVEKIT_API_KEY, LIVEKIT_API_SECRET, DEVICE_ID, transport>>
    /\ UNCHANGED toolVars

\* The POST of the connect() in progress is answered or fails to connect:
\* authenticate() runs to its end and connect() after it.
BasicConnectResumes(resp) ==
    /\ client.class = "LightberryBasicClient"
    /\ client.pc = "connecting"
    /\ auth.pc = "awaiting_post"
    /\ LET a == AuthDone(auth, resp)
       IN  client' = LightberryBasicClient_connect_returns(
                         client, AuthResult(a.raised, a.token, a.room, PyNone))
    /\ auth' = AuthIdle
    /\ UNCHANGED <<LIVEKIT_API_KEY, LIVEKIT_API_SECRET, DEVICE_ID, transport>>
    /\ UNCHANGED toolVars

\* The session's timeout ends the unanswered POST of the connect() in progress.
BasicConnectTimesOut ==
    /\ client.class = "LightberryBasicClient"
    /\ client.pc = "connecting"
    /\ auth.pc = "awaiting_post"
    /\ auth.elapsed = ClientTimeoutTotal
    /\ LET a == AuthDone(auth, TimedOut)
       IN  client' = LightberryBasicClient_connect_returns(
                         client, AuthResult(a.raised, a.token, a.room, PyNone))
    /\ auth' = AuthIdle
    /\ UNCHANGED <<LIVEKIT_API_KEY, LIVEKIT_API_SECRET, DEVICE_ID, transport>>
    /\ UNCHANGED toolVars

\* LBToolClient.connect(room_name, participant_name)
ToolConnect(room_name, participant_name, outcome, room_env) ==
    /\ client.class = "LBToolClient"
    /\ client' = LBToolClient_connect(client, room_name, participant_name, outcome, room_env)
    /\ UNCHANGED transport
    /\ UNCHANGED authVars
    /\ UNCHANGED toolVars

\* LightberryBasicClient.start_streaming(): it raises, or it starts audio_main
\* and stays in it.
StartStreaming ==
    /\ client.class = "LightberryBasicClient"
    /\ IF start_streaming_check(client) # NoException
       THEN /\ client' = Completed(client, "start_streaming", start_streaming_check(client))
            /\ UNCHANGED transport
       ELSE /\ ~transport.open
            /\ transport' = [Streaming("start_streaming", client)
                               EXCEPT !.teardown = transport.teardown]
            /\ UNCHANGED client
    /\ UNCHANGED authVars
    /\ UNCHANGED toolVars

\* LBToolClient.enable_audio(): it raises, or it starts main_with_tools and
\* stays in it.
EnableAudio ==
    /\ client.class = "LBToolClient"
    /\ IF enable_audio_check(client) # NoException
       THEN /\ client' = Completed(client, "enable_audio", enable_audio_check(client))
            /\ UNCHANGED transport
       ELSE /\ ~transport.open
            /\ transport' = [Streaming("enable_audio", client)
                               EXCEPT !.teardown = transport.teardown]
            /\ UNCHANGED client
    /\ UNCHANGED authVars
    /\ UNCHANGED toolVars

\* The streaming ends (it is stopped, or the room closes) and the call that
\* started it returns.
TransportEnds ==
    /\ transport.open
    /\ transport' = [NoTransport EXCEPT !.teardown = transport.teardown]
    /\ client' = Completed(client, transport.method, NoException)
    /\ UNCHANGED authVars
    /\ UNCHANGED toolVars

\* LightberryBasicClient.disconnect()
BasicDisconnect ==
    /\ client.class = "LightberryBasicClient"
    /\ client' = LightberryBasicClient_disconnect(client)
    /\ UNCHANGED transport
    /\ UNCHANGED authVars
    /\ UNCHANGED toolVars

\* LBToolClient.disconnect()
ToolDisconnect ==
    /\ client.class = "LBToolClient"
    /\ client' = LBToolClient_disconnect(client)
    /\ UNCHANGED transport
    /\ UNCHANGED authVars
    /\ UNCHANGED toolVars

NextClient ==
    \/ \E api_key \in ApiKeys, device_id \in DeviceIds :
          NewLightberryBasicClient(api_key, device_id)
    \/ \E api_key \in ApiKeys, device_id \in DeviceIds, use_local \in BOOLEAN :
          NewLBToolClient(api_key, device_id, use_local)
    \/ \E room_env \in RoomNameEnv : BasicConnect(room_env)
    \/ \E resp \in ConnectResponses : BasicConnectResumes(resp)
    \/ Tick
    \/ BasicConnectTimesOut
    \/ \E room_name \in ConnectRooms, participant_name \in ConnectParticipants,
          outcome \in (IF client.use_local THEN LocalAuthOutcomes ELSE {"ok"}),
          room_env \in (IF client.use_local THEN {PyNone} ELSE RoomNameEnv) :
          \* authenticate_local is called in local mode only, ROOM_NAME is
          \* read in remote mode only
          ToolConnect(room_name, participant_name, outcome, room_env)
    \/ StartStreaming
    \/ EnableAudio
    \/ TransportEnds
    \/ BasicDisconnect
    \/ ToolDisconnect

(***************************************************************************)
(* A session of an LBToolClient with tools: main_with_tools receives tool  *)
(* calls and control messages on the data channel while it runs, and the   *)
(* hosting session, whose controller the tools reach through               *)
(* _app_controller, closes the transport when it is asked to disconnect.   *)
(***************************************************************************)
\* The controller of the session that hosts the client.
HostController == "app1"

\* The tool calls of a session.
SessionRequests ==
    {Request("end_session", [k \in {"farewell_message"} |-> PyStr("bye")]),
     Request("end_session", [k \in {} |-> PyNone]),
     Request("get_current_order", [k \in {} |-> PyNone]),
     Request("missing_tool", [k \in {} |-> PyNone])}

\* The other messages of the channel.
ControlMessages == {"ping", "mute"}

\* The receive loop takes a tool call off the channel and dispatches it.
Receive(req) ==
    /\ transport.open
    /\ transport.method = "enable_audio"
    /\ Dispatch(req, "ok")

\* The receive loop handles a control message, whether or not a tool handler
\* is running.
ControlMessage(m) ==
    /\ transport.open
    /\ transport.method = "enable_audio"
    /\ transport' = [transport EXCEPT !.control = m]
    /\ UNCHANGED client
    /\ UNCHANGED authVars
    /\ UNCHANGED toolVars

\* The hosting session acts on request_disconnect(): it closes the transport,
\* and enable_audio() returns if it was running.
HostClosesTransport ==
    /\ HostController \in signalled
    /\ signalled' = signalled \ {HostController}
    /\ transport' = [NoTransport EXCEPT !.teardown = TRUE]
    /\ client' = IF transport.open THEN Completed(client, transport.method, NoException)
                 ELSE client
    /\ UNCHANGED <<TOOL_REGISTRY, _app_controller, declared, pending, listing, channel, direct>>
    /\ UNCHANGED authVars

\* The hosting session ends the teardown with disconnect().
HostTeardown ==
    /\ transport.teardown
    /\ transport' = [transport EXCEPT !.teardown = FALSE]
    /\ client' = LBToolClient_disconnect(client)
    /\ UNCHANGED authVars
    /\ UNCHANGED toolVars

NextSession ==
    \/ \E c \in Controllers \cup {NoController} : set_app_controller(c)
    \/ \E outcome \in {"ok", "configuration_error"} : ToolConnect(PyNone, PyNone, outcome, PyNone)
    \/ EnableAudio
    \/ \E req \in SessionRequests : Receive(req)
    \/ EmitResponse
    \/ \E m \in ControlMessages : ControlMessage(m)
    \/ HostClosesTransport
    \/ HostTeardown
    \/ ToolDisconnect
    \/ TransportEnds

(***************************************************************************)
(* The data channel with a dispatcher that runs one handler at a time       *)
(* (spec.md 5): tool calls queue up as they arrive, the dispatcher takes    *)
(* the oldest when no call is pending, and sends the response when the      *)
(* handler has ended.                                                       *)
(***************************************************************************)
\* The tool calls a session may carry in all.
MaxCalls == 3

\* A plausible slip: the newest response is put in front of the others.
Observed_newest_first(outbox, response) == <<response>> \o outbox

\* The responses as the remote side sees them, after one more was sent.
Observed(outbox, response) == Append(outbox, response)

\* A tool call arrives on the channel; id tells the calls apart.
Arrive(req) ==
    /\ channel.arrived < MaxCalls
    /\ channel' = [channel EXCEPT
                      !.arrived = @ + 1,
                      !.inbox = Append(@, [id |-> channel.arrived + 1, req |-> req])]
    /\ UNCHANGED <<TOOL_REGISTRY, _app_controller, declared, signalled, pending, listing, direct>>
    /\ UNCHANGED authVars
    /\ UNCHANGED clientVars

\* The dispatcher, with no call pending, takes the oldest tool call.
DispatchNext ==
    /\ channel.inbox # <<>>
    /\ DispatchCall(Head(channel.inbox).req, "ok")
    /\ channel' = [channel EXCEPT !.inbox = Tail(@),
                                  !.dispatched = Append(@, Head(channel.inbox))]

\* The handler has ended and the response is sent.
Respond ==
    /\ channel.dispatched # <<>>
    /\ SendResponse
    /\ channel' = [channel EXCEPT
                      !.outbox = Observed(@, [id |-> channel.dispatched[Len(channel.dispatched)].id,
                                              result |-> pending.result])]

NextChannel ==
    \/ \E c \in {HostController, NoController} : set_app_controller(c)
    \/ \E req \in SessionRequests : Arrive(req)
    \/ DispatchNext
    \/ Respond

(***************************************************************************)
(* Initial states and specifications.                                      *)
(***************************************************************************)
\* Both modules have been imported: the declarations of local_tool_responses
\* have run, and authenticator has read the environment.
Init ==
    /\ TOOL_REGISTRY = ImportTools(Len(ModuleTools))
    /\ declared = ImportDeclared(Len(ModuleTools))
    /\ _app_controller = NoController
    /\ signalled = {}
    /\ pending = Idle
    /\ listing = NotListed
    /\ channel = EmptyChannel
    /\ direct = NotCalled
    /\ LIVEKIT_API_KEY \in {PyNone, PyStr(""), PyStr("APIkey")}
    /\ LIVEKIT_API_SECRET \in {PyNone, PyStr("secret")}
    /\ DEVICE_ID \in {PyNone, PyStr("dev1")}
    /\ auth = AuthIdle
    /\ client = NotConstructed
    /\ transport = NoTransport

\* One environment, for the runs that are about the tools.
InitTools ==
    /\ TOOL_REGISTRY = ImportTools(Len(ModuleTools))
    /\ declared = ImportDeclared(Len(ModuleTools))
    /\ _app_controller = NoController
    /\ signalled = {}
    /\ pending = Idle
    /\ listing = NotListed
    /\ channel = EmptyChannel
    /\ direct = NotCalled
    /\ LIVEKIT_API_KEY = PyStr("APIkey")
    /\ LIVEKIT_API_SECRET = PyStr("secret")
    /\ DEVICE_ID = PyStr("dev1")
    /\ auth = AuthIdle
    /\ client = LBToolClient(PyNone, PyNone, TRUE)
    /\ transport = NoTransport

Next == NextTools \/ NextWrapper \/ NextRegistry \/ NextChannel \/ NextAuth \/ NextClient \/ NextSession

Spec == Init /\ [][Next]_vars

\* The tool side alone.
SpecTools == InitTools /\ [][NextTools]_vars

\* The decorated functions called directly.
SpecWrapper == InitTools /\ [][NextWrapper]_vars

\* The registry under registration, dispatch and listing.
SpecRegistry == InitTools /\ [][NextRegistry]_vars

\* The data channel with its sequential dispatcher: handlers end, and the
\* dispatcher keeps taking calls.
SpecChannelLive ==
    InitTools /\ [][NextChannel]_vars /\ WF_vars(DispatchNext) /\ WF_vars(Respond)

\* Authentication alone.
SpecAuth == Init /\ [][NextAuth]_vars

\* The clients, with the authentication their connect() calls.
SpecClient == Init /\ [][NextClient]_vars

\* A session of an LBToolClient in local mode, with its tools and its host.
SpecSession == InitTools /\ [][NextSession]_vars

\* The session with a host that acts on what it is asked: a requested
\* disconnect is carried out.
SpecSessionLive ==
    InitTools /\ [][NextSession]_vars
        /\ WF_vars(HostClosesTransport) /\ WF_vars(HostTeardown)

\* Authentication with time passing: a pending POST is answered or timed out.
SpecAuthLive == Init /\ [][NextAuth]_vars /\ WF_vars(Tick) /\ WF_vars(SessionTimeout)

(***************************************************************************)
(* Properties of the tool side, checked under SpecTools.                   *)
(***************************************************************************)
\* The function the last declaration of the called name registered, called
\* directly with the arguments of the pending tool call.
DirectCall ==
    Call(declared[pending.req.tool_name], pending.req.arguments, pending.controller,
         pending.ros)

Answering == pending.busy
AnsweringRegistered == pending.busy /\ pending.req.tool_name \in DOMAIN declared

\* C1: after any sequence of registrations, the dispatch of a tool name that no
\* declaration registered answers success = false with "tool_not_found", runs
\* no handler, and lets no exception escape to its caller.
C1_UnknownToolNotFound ==
    (Answering /\ pending.req.tool_name \notin DOMAIN declared)
        => /\ pending.result.success = FALSE
           /\ pending.result.error = "tool_not_found"
           /\ pending.result.tool_name = pending.req.tool_name
           /\ ~pending.ran
           /\ pending.effects = <<>>
           /\ pending.escaped = NoException

C1_Witness ==
    /\ Answering
    /\ "echo" \in DOMAIN declared
    /\ pending.req.tool_name = "missing_tool"
    /\ pending.result.error = "tool_not_found"

\* C2: the dispatch of a registered tool name with arguments its handler
\* accepts answers success = true with the payload the handler returns when it
\* is called directly with those arguments.
C2_DispatchMatchesDirectCall ==
    (AnsweringRegistered /\ DirectCall.raised = NoException)
        => /\ pending.result.success = TRUE
           /\ pending.result.payload = DirectCall.value
           /\ pending.result.tool_name = pending.req.tool_name

C2_Witness ==
    /\ AnsweringRegistered
    /\ pending.req.tool_name = "template"
    /\ declared["template"] = "get_current_order"
    /\ pending.result.success = TRUE
    /\ pending.result.payload.tool = "get_current_order"

\* C3: a dispatch whose handler raises answers success = false with the text
\* of the failure and the tool name of the request, lets nothing escape to the
\* transport, and leaves the registry, the controller and the disconnect
\* requests as they were, so that every later dispatch answers as it would have.
C3_HandlerFailureContained ==
    [][(~pending.busy /\ pending'.busy
          /\ pending'.req.tool_name \in DOMAIN declared
          /\ Call(declared[pending'.req.tool_name], pending'.req.arguments,
                  _app_controller, pending'.ros).raised # NoException)
        => /\ pending'.result.success = FALSE
           /\ pending'.result.error =
                Call(declared[pending'.req.tool_name], pending'.req.arguments,
                     _app_controller, pending'.ros).raised.text
           /\ pending'.result.error # ""
           /\ pending'.result.tool_name = pending'.req.tool_name
           /\ pending'.escaped = NoException
           /\ UNCHANGED <<TOOL_REGISTRY, _app_controller, declared, signalled>>]_vars

C3_Witness ==
    /\ AnsweringRegistered
    /\ pending.req.tool_name = "end_session"
    /\ pending.req.arguments = [k \in {"farewell_message"} |-> PyInt(2)]
    /\ pending.controller = "app1"
    /\ pending.result.success = FALSE
    /\ pending.result.error = "object of type 'int' has no len()"

\* C4: the dispatch of a registered tool with a required parameter missing
\* answers success = false with the TypeError of the call and the handler body
\* does not run (end_session without farewell_message neither sleeps nor
\* requests a disconnect); add_to_order, send_order and amend_order called
\* with optional parameters left out succeed with the declared defaults.
C4_RequiredAndDefaults ==
    (Answering /\ pending.ran) =>
      LET f == TOOL_REGISTRY[pending.req.tool_name]
          a == pending.req.arguments
      IN  /\ (\/ f = "end_session" /\ "farewell_message" \notin DOMAIN a
              \/ f = "add_to_order" /\ {"coffee_type", "milk_type"} \ DOMAIN a # {})
                => /\ pending.result.success = FALSE
                   /\ pending.result.payload = NoPayload
                   /\ pending.result.error # ""
                   /\ pending.handler.raised.type = "TypeError"
                   /\ pending.effects = <<>>
                   /\ signalled = pending.signalled_before
          /\ (f = "add_to_order" /\ DOMAIN a = {"coffee_type", "milk_type"})
                => /\ pending.result.success = TRUE
                   /\ pending.result.payload.item =
                        [coffee_type |-> a["coffee_type"], milk_type |-> a["milk_type"],
                         size |-> PyStr("medium"), quantity |-> PyInt(1),
                         special_instructions |-> PyStr("")]
          /\ (f = "add_to_order" /\ DOMAIN a = {"coffee_type", "milk_type", "quantity"})
                => /\ pending.result.success = TRUE
                   /\ pending.result.payload.item.quantity = a["quantity"]
                   /\ pending.result.payload.item.size = PyStr("medium")
          /\ (f = "send_order" /\ DOMAIN a = {})
                => /\ pending.result.success = TRUE
                   /\ pending.result.payload.customer_name = PyStr("")
                   /\ pending.result.payload.special_notes = PyStr("")
          /\ (f = "amend_order" /\ DOMAIN a = {"coffee_type"})
                => /\ pending.result.success = TRUE
                   /\ pending.result.payload.action = PyStr("update")
                   /\ pending.result.payload.item_id = PyStr("")

C4_Witness ==
    /\ AnsweringRegistered
    /\ pending.req.tool_name = "end_session"
    /\ declared["end_session"] = "end_session"
    /\ pending.req.arguments = [k \in {} |-> PyNone]
    /\ pending.controller = "app1"
    /\ pending.result.success = FALSE
    /\ signalled = {}

\* C10: end_session called with a farewell message while no controller is set
\* requests no disconnect, raises nothing, and returns its own success payload.
C10_UnsetControllerNoOp ==
    (Answering /\ pending.ran
       /\ TOOL_REGISTRY[pending.req.tool_name] = "end_session"
       /\ DOMAIN pending.req.arguments = {"farewell_message"}
       /\ pending.req.arguments["farewell_message"].type = "str"
       /\ pending.controller = NoController)
        => /\ pending.handler.raised = NoException
           /\ pending.handler.value =
                [tool |-> "end_session", success |-> TRUE,
                 farewell_message |-> pending.req.arguments["farewell_message"],
                 message |-> "Session ending, disconnecting from room"]
           /\ Requested(pending.handler.effects) = {}
           /\ signalled = pending.signalled_before

C10_Witness ==
    /\ AnsweringRegistered
    /\ pending.req.tool_name = "end_session"
    /\ pending.req.arguments = [k \in {"farewell_message"} |-> PyStr("bye")]
    /\ pending.controller = NoController
    /\ pending.ran
    /\ pending.handler.value.tool = "end_session"
    /\ pending.handler.value.success = TRUE

(***************************************************************************)
(* Properties of authentication, checked under SpecAuth and SpecAuthLive.  *)
(***************************************************************************)
Resolved == auth.pc = "done"

\* The remote side answered with an HTTP success status and a JSON body whose
\* success flag is true and whose token and room name are non-empty strings.
RemoteSuccess ==
    /\ auth.response.kind = "http"
    /\ auth.response.status \in 200..299
    /\ auth.response.json
    /\ "success" \in DOMAIN auth.response.data
    /\ auth.response.data["success"] = PyBool(TRUE)
    /\ "livekit_token" \in DOMAIN auth.response.data
    /\ auth.response.data["livekit_token"].s # ""
    /\ "room_name" \in DOMAIN auth.response.data
    /\ auth.response.data["room_name"].s # ""

SigningCredentialsPresent ==
    /\ LIVEKIT_API_KEY.type = "str" /\ LIVEKIT_API_KEY.s # ""
    /\ LIVEKIT_API_SECRET.type = "str" /\ LIVEKIT_API_SECRET.s # ""

\* The token generate_token signs for the call's participant and fallback room.
LocalToken ==
    LET id == IF auth.participant.s = ""
              THEN PyStr("python-user-" \o auth.fallback.s) ELSE auth.participant
    IN  PyStr("jwt(" \o LIVEKIT_API_KEY.s \o "," \o id.s \o "," \o id.s \o ","
                \o auth.fallback.s \o ")")

\* C5: when the remote side answers with success, a token T and a room R,
\* authenticate returns (T, R) and generate_token is not called.
C5_RemoteCredentialReturned ==
    (Resolved /\ RemoteSuccess)
        => /\ auth.raised = NoException
           /\ auth.token = auth.response.data["livekit_token"]
           /\ auth.room = auth.response.data["room_name"]
           /\ auth.synth = 0

C5_Witness ==
    /\ Resolved
    /\ RemoteSuccess
    /\ auth.token = PyStr("T1")
    /\ auth.room = PyStr("room-A")
    /\ auth.fallback = PyStr("lobby")

\* The remote call raised (no connection, a status of 400 and above, a body
\* that is not JSON), or answered without a true success flag, or without a
\* token or a room name.
RemoteSoftFailure ==
    /\ auth.response.kind \in {"network_error", "http"}
    /\ ~RemoteSuccess

\* C6: when the remote call raises, answers with a success flag that is not
\* true, or leaves out the token or the room name, authenticate calls
\* generate_token exactly once and, with the signing credentials present,
\* returns the local token with the fallback room.
C6_FallbackOnSoftFailure ==
    (Resolved /\ RemoteSoftFailure)
        => /\ auth.synth = 1
           /\ SigningCredentialsPresent
                => /\ auth.raised = NoException
                   /\ auth.room = auth.fallback
                   /\ auth.token = LocalToken

C6_Witness ==
    /\ Resolved
    /\ auth.response.kind = "http"
    /\ auth.response.status = 200
    /\ auth.response.json
    /\ DOMAIN auth.response.data = {"success", "livekit_token"}
    /\ auth.response.data["success"] = PyBool(TRUE)
    /\ auth.response.data["livekit_token"] = PyStr("T1")
    /\ SigningCredentialsPresent
    /\ auth.fallback = PyStr("lobby")
    /\ auth.room = PyStr("lobby")
    /\ auth.synth = 1

\* C7: when generate_token is called with the signing key or the signing
\* secret absent, authenticate raises the ValueError and returns no credential.
C7_MissingSigningCredentialsFatal ==
    (Resolved /\ auth.synth >= 1 /\ ~SigningCredentialsPresent)
        => /\ auth.raised.type = "ValueError"
           /\ auth.token = PyNone
           /\ auth.room = PyNone

C7_Witness ==
    /\ Resolved
    /\ auth.synth = 1
    /\ LIVEKIT_API_KEY = PyStr("APIkey")
    /\ LIVEKIT_API_SECRET = PyNone
    /\ auth.raised.type = "ValueError"

\* C8: over every remote outcome (no device id, no connection, error status,
\* body that is not JSON, success flag not true, missing fields, timeout,
\* success) and every environment, authenticate raises exactly when the remote
\* attempt did not succeed and the signing credentials are absent, and what it
\* raises is the ValueError of generate_token, never a failure of the remote side.
C8_RaisesOnlyConfigurationError ==
    Resolved
        => /\ (auth.raised # NoException)
                <=> (~RemoteSuccess /\ ~SigningCredentialsPresent)
           /\ auth.raised # NoException => auth.raised.type = "ValueError"
           /\ auth.raised = NoException => (auth.token # PyNone /\ auth.room # PyNone)

C8_Witness ==
    /\ Resolved
    /\ auth.response.kind = "http"
    /\ auth.response.status = 429
    /\ ~SigningCredentialsPresent
    /\ auth.raised.type = "ValueError"

\* C9 as stated: after a timeout of the remote call authenticate returns a
\* credential whose room is the fallback room.
C9_TimeoutAlwaysYieldsFallback ==
    (Resolved /\ auth.response.kind = "timeout")
        => /\ auth.raised = NoException
           /\ auth.room = auth.fallback

\* C9 amended: an unanswered remote call does not block authenticate for ever:
\* the POST ends within the session's timeout, the timeout is absorbed, and
\* authenticate ends; with the signing credentials present it returns the
\* local token with the fallback room, without them it raises the ValueError.
C9_TimeoutFallsBack ==
    /\ [](auth.pc = "awaiting_post" => auth.elapsed <= ClientTimeoutTotal)
    /\ (auth.pc = "awaiting_post") ~> Resolved
    /\ []((Resolved /\ auth.response.kind = "timeout")
            => /\ auth.synth = 1
               /\ IF SigningCredentialsPresent
                  THEN /\ auth.raised = NoException
                       /\ auth.room = auth.fallback
                       /\ auth.token = LocalToken
                  ELSE /\ auth.raised.type = "ValueError"
                       /\ auth.token = PyNone)

C9_Witness ==
    /\ Resolved
    /\ auth.response.kind = "timeout"
    /\ auth.elapsed = ClientTimeoutTotal
    /\ SigningCredentialsPresent
    /\ auth.room = PyStr("default-room")
    /\ auth.fallback = PyStr("default-room")

(***************************************************************************)
(* The controller reference and the registry under repeated declarations,  *)
(* checked under SpecTools.                                                *)
(***************************************************************************)
\* C11: the controller reference starts unset, and once set_app_controller has
\* bound it, it stays bound to that same reference in every later state: no
\* call of set_app_controller unbinds it or binds it to another reference.
C11_ControllerSetOnce ==
    [][_app_controller # NoController => _app_controller' = _app_controller]_vars

\* C12: a declaration under a name that is already registered replaces the
\* earlier function and raises nothing: after the declaration a lookup of the
\* name gives the newly declared function, every other name maps to what it
\* mapped to before, and so the registry always holds, for each name, the
\* function of the last declaration of that name.
C12_LastRegistrationWins ==
    /\ [](DOMAIN TOOL_REGISTRY = DOMAIN declared
            /\ \A n \in DOMAIN declared : TOOL_REGISTRY[n] = declared[n])
    /\ [][\A name \in RegNames, func \in RegFuncs :
            (declared' = DictSet(declared, name, func) /\ declared' # declared)
              => /\ TOOL_REGISTRY'[name] = func
                 /\ DOMAIN TOOL_REGISTRY' = DOMAIN TOOL_REGISTRY \cup {name}
                 /\ \A m \in DOMAIN TOOL_REGISTRY \ {name} :
                        TOOL_REGISTRY'[m] = TOOL_REGISTRY[m]]_vars

\* "template" was declared by the module with template_function, then again
\* with get_current_order and last with end_session; "echo" was declared once.
C12_Witness ==
    /\ TOOL_REGISTRY["template"] = "end_session"
    /\ "echo" \in DOMAIN TOOL_REGISTRY
    /\ TOOL_REGISTRY["echo"] = "get_current_order"
    /\ TOOL_REGISTRY["end_session"] = "end_session"
    /\ TOOL_REGISTRY["get_current_order"] = "get_current_order"

(***************************************************************************)
(* Properties of the client sessions, checked under SpecClient.            *)
(***************************************************************************)
\* The session fields of a client.
SessionFields(c) == <<c._participant_name, c._room_name, c._token, c._livekit_url>>

\* C13: the session starts Disconnected; it becomes Connected only at the end
\* of a connect() whose authentication returned a credential, and that
\* connect() stores the credential's room; it becomes Disconnected only by
\* disconnect(), and it is Disconnected after every disconnect(); is_connected
\* tells the one from the other, whatever the order of the calls.
C13_SessionStateMachine ==
    /\ [](client.last = "" => ~is_connected(client))
    /\ [](client.last = "disconnect" => ~is_connected(client))
    /\ []((client.last = "connect" /\ client.raised = NoException)
            => /\ is_connected(client)
               /\ client.auth_result.raised = NoException
               /\ client._room_name = client.auth_result.room)
    /\ [][is_connected(client') # is_connected(client)
            => IF is_connected(client')
               THEN /\ client'.last = "connect"
                    /\ client'.raised = NoException
                    /\ client'.auth_result.raised = NoException
               ELSE client'.last = "disconnect"]_vars

\* A LightberryBasicClient that connected with the room of the remote side and
\* was then disconnected.
C13_Witness ==
    /\ client.class = "LightberryBasicClient"
    /\ client.last = "disconnect"
    /\ client.auth_result.raised = NoException
    /\ client.auth_result.room = PyStr("room-A")
    /\ ~is_connected(client)

\* C14: a connect() whose authentication raises ends by raising to its caller,
\* and its end leaves the participant, the room, the token and the URL as they
\* were and starts no transport: a Disconnected session stays Disconnected.
C14_FailedConnectChangesNothing ==
    /\ []((client.last = "connect" /\ client.auth_result.raised # NoException)
            => client.raised # NoException)
    /\ [][(client' # client /\ client'.last = "connect" /\ client'.raised # NoException)
            => /\ SessionFields(client') = SessionFields(client)
               /\ is_connected(client') = is_connected(client)
               /\ transport' = transport]_vars

\* A LightberryBasicClient whose connect() ended with the ValueError of the
\* absent signing credentials.
C14_Witness ==
    /\ client.class = "LightberryBasicClient"
    /\ client.last = "connect"
    /\ client.auth_result.raised.type = "ValueError"
    /\ client.raised = client.auth_result.raised
    /\ LIVEKIT_API_SECRET = PyNone
    /\ ~is_connected(client)
    /\ ~transport.open

\* C15: a connect() whose authentication raised a failure with "quota" in its
\* text, in any case of the letters, raises Exception("Quota reached.");
\* after any other failure it raises that same failure.
C15_QuotaSurfacedDistinctly ==
    (client.last = "connect" /\ client.auth_result.raised # NoException)
        => IF Contains(Lower(client.auth_result.raised.text), "quota")
           THEN client.raised = Exc("Exception", "Quota reached.")
           ELSE client.raised = client.auth_result.raised

C15_Witness ==
    /\ client.last = "connect"
    /\ client.auth_result.raised.text = "Quota exceeded"
    /\ client.raised = Exc("Exception", "Quota reached.")

\* C16: start_streaming() and enable_audio() called on a Disconnected session
\* raise RuntimeError, and no transport is started from a Disconnected session.
C16_StreamingNeedsConnect ==
    [][~is_connected(client)
         => /\ ~(~transport.open /\ transport'.open)
            /\ (client' # client /\ transport' = transport
                  /\ client'.last \in {"start_streaming", "enable_audio"}
                  /\ [client' EXCEPT !.raised = client.raised, !.last = client.last]
                       = client)
                 => client'.raised.type = "RuntimeError"]_vars

\* start_streaming() raised after a connect() that failed.
C16_Witness ==
    /\ client.class = "LightberryBasicClient"
    /\ client.last = "start_streaming"
    /\ client.raised.type = "RuntimeError"
    /\ client.auth_result.raised.type = "ValueError"
    /\ ~is_connected(client)
    /\ ~transport.open

(***************************************************************************)
(* Properties of a session with tools, checked under SpecSession and (C19) *)
(* SpecSessionLive; C20 is checked under SpecTools.                        *)
(***************************************************************************)
\* A call of end_session with a farewell message that is a string is being
\* answered.
EndSessionInProgress ==
    /\ pending.busy
    /\ pending.ran
    /\ TOOL_REGISTRY[pending.req.tool_name] = "end_session"
    /\ DOMAIN pending.req.arguments = {"farewell_message"}
    /\ pending.req.arguments["farewell_message"].type = "str"

\* C17: once disconnect() has been called and the session is Disconnected, no
\* tool call is accepted for dispatch any more.
C17_NoDispatchAfterDisconnect ==
    [][(client.last = "disconnect" /\ ~is_connected(client))
         => ~(~pending.busy /\ pending'.busy)]_vars

C20_ResultIndependentOfDisconnect ==
    EndSessionInProgress
        => LET payload == [tool |-> "end_session", success |-> TRUE,
                           farewell_message |-> pending.req.arguments["farewell_message"],
                           message |-> "Session ending, disconnecting from room"]
           IN  /\ pending.handler.raised = NoException
               /\ pending.handler.value = payload
               /\ pending.result
                    = InvocationResult(pending.req.tool_name, TRUE, payload, "")

\* end_session answered with a controller bound, after it requested the
\* disconnect.
C20_Witness ==
    /\ EndSessionInProgress
    /\ pending.controller = "app2"
    /\ Requested(pending.effects) = {"app2"}
    /\ pending.result.success = TRUE
    /\ pending.result.payload.message = "Session ending, disconnecting from room"

C22_FetchAllOrNothing ==
    Resolved
        => /\ IF RemoteSuccess
              THEN auth.pair = <<auth.response.data["livekit_token"],
                                 auth.response.data["room_name"]>>
              ELSE auth.pair = NoCredentials
           /\ (auth.pair[1] = PyNone) <=> (auth.pair[2] = PyNone)
           /\ (auth.pair[1] = PyStr("")) <=> (auth.pair[2] = PyStr(""))

\* The answer had the success flag and a token but an empty room name:
\* nothing of it was returned.
C22_Witness ==
    /\ Resolved
    /\ auth.response.kind = "http"
    /\ auth.response.status = 200
    /\ auth.response.json
    /\ DOMAIN auth.response.data = DataKeys
    /\ auth.response.data["success"] = PyBool(TRUE)
    /\ auth.response.data["livekit_token"] = PyStr("T1")
    /\ auth.response.data["room_name"] = PyStr("")
    /\ auth.pair = NoCredentials

\* C23 as stated: the room authenticate returns equals the fallback room
\* exactly when the credential was synthesized locally.
C23_RoomTellsThePath ==
    (Resolved /\ auth.raised = NoException)
        => ((auth.room = auth.fallback) <=> (auth.synth = 1))

\* C23 amended: a locally synthesized credential always carries the fallback
\* room, so a returned room that differs from the fallback room tells that the
\* credential is the remote one; a returned room that equals the fallback room
\* tells nothing, because the remote side may name that same room.
C23_DifferentRoomMeansRemote ==
    (Resolved /\ auth.raised = NoException)
        => /\ auth.synth = 1 => (auth.room = auth.fallback /\ auth.token = LocalToken)
           /\ auth.room # auth.fallback
                => (auth.synth = 0 /\ RemoteSuccess
                      /\ auth.room = auth.response.data["room_name"]
                      /\ auth.token = auth.response.data["livekit_token"])
           /\ auth.synth = 0 => RemoteSuccess

\* The remote side answered with the room that is also the fallback room.
C23_Witness ==
    /\ Resolved
    /\ RemoteSuccess
    /\ auth.raised = NoException
    /\ auth.synth = 0
    /\ auth.token = PyStr("T1")
    /\ auth.fallback = PyStr("default-room")
    /\ auth.room = auth.fallback

\* C24: with DEVICE_ID not set, authenticate sends no request (it never waits
\* for a POST), get_credentials_from_api returns (None, None) and nothing is
\* raised for it, and generate_token is called once for the fallback room:
\* with the signing credentials present the local credential is returned.
C24_NoDeviceIdGoesLocal ==
    DEVICE_ID = PyNone
        => /\ auth.pc # "awaiting_post"
           /\ auth.posts = 0
           /\ auth.response = NotSent
           /\ Resolved
                => /\ auth.pair = NoCredentials
                   /\ auth.synth = 1
                   /\ IF SigningCredentialsPresent
                      THEN /\ auth.raised = NoException
                           /\ auth.room = auth.fallback
                           /\ auth.token = LocalToken
                      ELSE auth.raised.type = "ValueError"

C24_Witness ==
    /\ DEVICE_ID = PyNone
    /\ Resolved
    /\ auth.posts = 0
    /\ auth.synth = 1
    /\ auth.raised = NoException
    /\ auth.fallback = PyStr("lobby")
    /\ auth.room = PyStr("lobby")

(***************************************************************************)
(* Properties of connect(), checked under SpecClient.                       *)
(***************************************************************************)
\* C25: authenticate accepts the session options LBToolClient.connect() passes
\* and returns a token, a room name and a URL, so that a connect() of an
\* LBToolClient in remote mode, in an environment where authenticate succeeds
\* whatever the remote side answers (the signing credentials are present),
\* ends Connected with the token, the room name and the URL set.
C25_RemoteToolConnectSucceeds ==
    (/\ client.class = "LBToolClient"
     /\ ~client.use_local
     /\ client.last = "connect"
     /\ SigningCredentialsPresent)
        => /\ client.raised = NoException
           /\ is_connected(client)
           /\ client._token # PyNone
           /\ client._room_name # PyNone
           /\ client._livekit_url # PyNone

(***************************************************************************)
(* The registry during dispatch, checked under SpecRegistry.                *)
(***************************************************************************)
\* C26: no dispatch (a success, a handler failure, a name that is not found),
\* no sending of a response and no call of get_available_tools() adds, removes
\* or rebinds an entry of the registry; get_available_tools() returns one
\* descriptor for each registered name and none for any other, each with its
\* name and the function registered under it.
C26_RegistryReadOnlyInDispatch ==
    /\ [][(pending' # pending \/ listing' # listing)
            => (TOOL_REGISTRY' = TOOL_REGISTRY /\ declared' = declared)]_vars
    /\ [][TOOL_REGISTRY' # TOOL_REGISTRY => declared' # declared]_vars
    /\ [][listing' # listing
            => /\ listing'.called
               /\ DOMAIN listing'.tools = DOMAIN declared
               /\ \A name \in DOMAIN declared :
                     /\ listing'.tools[name].name = name
                     /\ listing'.tools[name].function = declared[name]]_vars

\* The tools were listed after "echo" was registered and "template"
\* registered again, and a call of a tool that is not registered was answered
\* since.
C26_Witness ==
    /\ listing.called
    /\ DOMAIN listing.tools = DOMAIN TOOL_REGISTRY
    /\ "echo" \in DOMAIN listing.tools
    /\ listing.tools["template"].function = "end_session"
    /\ pending.busy
    /\ pending.result.error = "tool_not_found"

(***************************************************************************)
(* The order of the responses, checked under SpecChannelLive.               *)
(***************************************************************************)
\* C27: with a dispatcher that runs one handler at a time, the responses sent
\* are, in order, the responses of the tool calls dispatched: the i-th
\* response belongs to the i-th dispatched call and carries its tool name, no
\* call has two responses, at most the last dispatched call is without its
\* response, and every dispatched call comes to have one.
C27_ResponsesInDispatchOrder ==
    /\ [](/\ Len(channel.outbox) <= Len(channel.dispatched)
          /\ Len(channel.dispatched) <= Len(channel.outbox) + 1
          /\ \A i \in 1..Len(channel.outbox) :
                /\ channel.outbox[i].id = channel.dispatched[i].id
                /\ channel.outbox[i].result.tool_name
                     = channel.dispatched[i].req.tool_name
          /\ \A i, j \in 1..Len(channel.outbox) :
                channel.outbox[i].id = channel.outbox[j].id => i = j)
    /\ \A n \in 1..MaxCalls :
          (Len(channel.dispatched) >= n) ~> (Len(channel.outbox) >= n)

\* Three calls were dispatched and answered: a success, a name that is not
\* registered, and a handler failure.
C27_Witness ==
    /\ Len(channel.outbox) = MaxCalls
    /\ channel.outbox[1].result.tool_name = "get_current_order"
    /\ channel.outbox[1].result.success = TRUE
    /\ channel.outbox[2].result.tool_name = "missing_tool"
    /\ channel.outbox[2].result.error = "tool_not_found"
    /\ channel.outbox[3].result.tool_name = "end_session"
    /\ channel.outbox[3].result.success = FALSE

(***************************************************************************)
(* What connect() passes to authentication, checked under SpecClient.       *)
(***************************************************************************)
\* C28: a connect() of an LBToolClient in remote mode passes to authentication
\* the participant "sdk-user-<device_id>" and the room of ROOM_NAME
\* ("default-room" when it is not set), whatever room_name and
\* participant_name its caller passed: two such calls that differ only in
\* these arguments pass the same values.  LightberryBasicClient.connect(),
\* which takes no arguments, passes the same two values.
C28_RemoteConnectIgnoresArguments ==
    /\ [][(client.class = "LBToolClient" /\ ~client.use_local /\ client' # client)
         => \A room_name \in ConnectRooms, participant_name \in ConnectParticipants,
               room_env \in RoomNameEnv :
             ToolConnect(room_name, participant_name, "ok", room_env)
               => /\ client'.args = <<room_name, participant_name>>
                  /\ client'.participant_name = PyStr("sdk-user-" \o client.device_id.s)
                  /\ client'.room_name = (IF room_env = PyNone THEN PyStr("default-room")
                                                              ELSE room_env)]_vars
    /\ [][(client.class = "LightberryBasicClient" /\ client.pc = "idle"
            /\ client' # client)
         => \A room_env \in RoomNameEnv :
             BasicConnect(room_env)
               => /\ client'.participant_name = PyStr("sdk-user-" \o Str(client.device_id))
                  /\ client'.room_name = (IF room_env = PyNone THEN PyStr("default-room")
                                                              ELSE room_env)]_vars

\* A remote connect() that was called with a room and a participant of the
\* caller's own, and passed neither of them on.
C28_Witness ==
    /\ client.class = "LBToolClient"
    /\ ~client.use_local
    /\ client.last = "connect"
    /\ client.args = <<PyStr("test-room"), PyStr("alice")>>
    /\ client.participant_name = PyStr("sdk-user-dev1")
    /\ client.room_name = PyStr("lobby")

(***************************************************************************)
(* The disconnect request of end_session, checked under SpecTools.          *)
(***************************************************************************)
\* The calls of request_disconnect() among the effects of the pending call.
RequestCalls ==
    {i \in 1..Len(pending.effects) : pending.effects[i].op = "request_disconnect"}

\* The pending dispatch invoked end_session with farewell_message, so that
\* its body ran.
EndSessionInvoked ==
    /\ pending.busy
    /\ pending.ran
    /\ TOOL_REGISTRY[pending.req.tool_name] = "end_session"
    /\ DOMAIN pending.req.arguments = {"farewell_message"}

\* C29 as stated: every invocation of end_session with a controller bound
\* calls request_disconnect() exactly once, after the sleep; with no controller
\* it calls it never.
C29_EveryInvocationRequestsOnce ==
    EndSessionInvoked
        => IF pending.controller # NoController
           THEN /\ Cardinality(RequestCalls) = 1
                /\ Len(pending.effects) = 2
                /\ pending.effects[1].op = "sleep"
                /\ pending.effects[2] = Effect("request_disconnect", 0, pending.controller)
           ELSE RequestCalls = {}

\* C29 amended: an invocation of end_session that returns its result has
\* slept for the farewell delay and then, with a controller bound, called
\* request_disconnect() on it exactly once, and with no controller not at all;
\* an invocation that raises (farewell_message has no length) has called
\* request_disconnect() on nothing, bound controller or not.
C29_ReturningInvocationRequestsOnce ==
    EndSessionInvoked
        => IF pending.handler.raised = NoException
           THEN /\ pending.result.success = TRUE
                /\ pending.effects[1]
                     = Effect("sleep",
                              Len(pending.req.arguments["farewell_message"].s) + 26, "")
                /\ IF pending.controller # NoController
                   THEN /\ Len(pending.effects) = 2
                        /\ RequestCalls = {2}
                        /\ pending.effects[2].target = pending.controller
                        /\ signalled = pending.signalled_before \cup {pending.controller}
                   ELSE /\ Len(pending.effects) = 1
                        /\ signalled = pending.signalled_before
           ELSE /\ pending.result.success = FALSE
                /\ RequestCalls = {}
                /\ signalled = pending.signalled_before

\* end_session was invoked with a number for a message while a controller was
\* bound: it raised and requested nothing.
C29_Witness ==
    /\ EndSessionInvoked
    /\ pending.controller = "app1"
    /\ pending.req.arguments = [k \in {"farewell_message"} |-> PyInt(2)]
    /\ pending.handler.raised.type = "TypeError"
    /\ RequestCalls = {}
    /\ signalled = {}

(***************************************************************************)
(* disconnect(), checked under SpecClient.                                  *)
(***************************************************************************)
\* C30: disconnect() of either class raises nothing and leaves the
\* participant, the room, the token and the URL cleared; called on a
\* Disconnected session it changes none of the fields of the session; and a
\* connect() that succeeds after a disconnect() ends Connected again, with the
\* values its authentication gave.
C30_DisconnectClearsAndIsIdempotent ==
    /\ [](client.last = "disconnect"
            => /\ client.raised = NoException
               /\ SessionFields(client) = <<PyNone, PyNone, PyNone, PyNone>>
               /\ ~is_connected(client))
    /\ [][((BasicDisconnect \/ ToolDisconnect) /\ ~is_connected(client))
            => /\ SessionFields(client') = SessionFields(client)
               /\ [client' EXCEPT !.last = client.last, !.raised = client.raised] = client
               /\ client'.raised = NoException
               /\ ~is_connected(client')]_vars
    /\ [][(client.last = "disconnect" /\ client'.last = "connect"
              /\ client'.raised = NoException)
            => /\ is_connected(client')
               /\ client'._participant_name = client'.participant_name
               /\ client'._room_name = client'.auth_result.room
               /\ client'.class = "LBToolClient"
                    => /\ client'._token = client'.auth_result.token
                       /\ client'._livekit_url = client'.auth_result.url]_vars

\* An LBToolClient that connected in local mode, with a token and a URL, and
\* was then disconnected.
C30_Witness ==
    /\ client.class = "LBToolClient"
    /\ client.use_local
    /\ client.last = "disconnect"
    /\ client.auth_result.raised = NoException
    /\ client.auth_result.token # PyNone
    /\ client.auth_result.url # PyNone
    /\ SessionFields(client) = <<PyNone, PyNone, PyNone, PyNone>>

(***************************************************************************)
(* The wrapper of the decorator, checked under SpecWrapper.                 *)
(***************************************************************************)
\* C31: a decorated function called by its name gives what the function it
\* wraps gives for the same arguments: the same returned value, or the same
\* exception raised to the caller, and the same effects.
C31_WrapperActsAsHandler ==
    direct.called
        => LET raw == Call(direct.func, direct.kwargs, direct.controller, direct.ros)
           IN  /\ direct.outcome.raised = raw.raised
               /\ direct.outcome.value = raw.value
               /\ direct.outcome.effects = raw.effects
               /\ (direct.func = "end_session"
                      /\ DOMAIN direct.kwargs = {"farewell_message"}
                      /\ direct.kwargs["farewell_message"].type # "str")
                    => direct.outcome.raised.type = "TypeError"

\* end_session was called by its name with a number for a message: the
\* TypeError of len() came out of the wrapper.
C31_Witness ==
    /\ direct.called
    /\ direct.func = "end_session"
    /\ direct.kwargs = [k \in {"farewell_message"} |-> PyInt(2)]
    /\ direct.controller = "app1"
    /\ direct.outcome.raised = Exc("TypeError", "object of type 'int' has no len()")
    /\ direct.outcome.effects = <<>>

====
